---- MODULE Spec2Model ----
(***************************************************************************)
(* State-machine model of the stock predictor:                            *)
(*   GRUModel            (gru.js,  src/unnamed/part_002)                   *)
(*   StockPredictorApp   (src/app.js; src/unnamed/part_000 has the same    *)
(*                        handlers; src/unnamed/part_001 is the older      *)
(*                        variant of the same class, modelled as "legacy") *)
(* The tensor backend (tf) and the DOM are the environment: the backend    *)
(* finishes epochs, resolves or rejects promises, and the user clicks.     *)
(* One action is one uninterrupted run of JavaScript: a handler up to its  *)
(* first suspension, or the continuation after a suspension.               *)
(***************************************************************************)
EXTENDS Integers, Sequences, FiniteSets, TLC

(* ------------------------------ bounds -------------------------------- *)
MaxCalls == 3         \* clicks on the page in one behaviour
MaxDirectCalls == 2   \* calls of buildModel, train, predict on a GRUModel used directly
MaxSeriesLen == 63    \* longest normalised series handed to a live prediction
MaxPrices == 203      \* longest price series handed to the combined chart
NormMin == -3         \* the fitted minimum return of the loaded series (per mille)
NormMax == 4          \* the fitted maximum return of the loaded series (per mille)

(* ------------------------- program constants -------------------------- *)
ThrottleMs == 500     \* app.js:512
DefaultEpochs == 12   \* app.js:488, gru.js:47,66,70
YieldEvery == 3       \* gru.js:105
DefaultHorizon == 5   \* gru.js:3
DefaultWindow == 60   \* gru.js:3
DefaultBatchSize == 256  \* gru.js:9
MaxPoints == 100      \* app.js:239
(* Rows of X_train the DataLoader prepares from the loaded series.        *)
LoadedSamples == 300

(* Date.now() when the page starts: any value far above ThrottleMs.       *)
ClockStart == 10000
(* Wall-clock milliseconds one epoch may take: exactly the throttle        *)
(* interval (not more than it), or twice that.                             *)
EpochMillis == {ThrottleMs, 2 * ThrottleMs}

Max(a, b) == IF a >= b THEN a ELSE b
Min(a, b) == IF a <= b THEN a ELSE b

(* ----------------------------- JS values ------------------------------ *)
(* A JavaScript number is kept as a fraction num/den (den > 0), NaN apart. *)
Num(n) == [t |-> "number", num |-> n, den |-> 1]
Frac(n, d) == [t |-> "number", num |-> n, den |-> d]
NaN == [t |-> "nan", num |-> 0, den |-> 1]
(* An argument that was not passed, and an object passed where a number is *)
(* expected.                                                               *)
Undefined == [t |-> "undefined", num |-> 0, den |-> 1]
AnObject == [t |-> "object", num |-> 0, den |-> 1]
Null == [t |-> "null", num |-> 0, den |-> 1]
(* typeof v === 'object': true of objects and of null.                     *)
TypeofObject(v) == v.t \in {"object", "null"}

(* The text of the #epochs input, as a sequence of characters.            *)
DigitChars == {"0", "1", "2", "3", "4", "5", "6", "7", "8", "9"}
DigitVal(c) ==
    CASE c = "0" -> 0 [] c = "1" -> 1 [] c = "2" -> 2 [] c = "3" -> 3
      [] c = "4" -> 4 [] c = "5" -> 5 [] c = "6" -> 6 [] c = "7" -> 7
      [] c = "8" -> 8 [] c = "9" -> 9

RECURSIVE LeadingDigits(_)
LeadingDigits(s) ==
    IF s = <<>> \/ Head(s) \notin DigitChars THEN <<>>
    ELSE <<Head(s)>> \o LeadingDigits(Tail(s))

RECURSIVE DigitsValue(_, _)
DigitsValue(s, acc) ==
    IF s = <<>> THEN acc ELSE DigitsValue(Tail(s), 10 * acc + DigitVal(Head(s)))

RECURSIVE SkipSpaces(_)
SkipSpaces(s) == IF s # <<>> /\ Head(s) = " " THEN SkipSpaces(Tail(s)) ELSE s

(* parseInt(text): leading blanks, an optional sign, then the longest run  *)
(* of digits; NaN when there is none.                                      *)
ParseInt(text) ==
    LET s    == SkipSpaces(text)
        neg  == s # <<>> /\ Head(s) = "-"
        body == IF s # <<>> /\ Head(s) \in {"-", "+"} THEN Tail(s) ELSE s
        ds   == LeadingDigits(body)
    IN  IF ds = <<>> THEN NaN
        ELSE Num(IF neg THEN 0 - DigitsValue(ds, 0) ELSE DigitsValue(ds, 0))

(* `v || 12` on a number: NaN and 0 are falsy.                             *)
OrDefault(v, d) == IF v.t = "nan" \/ v.num = 0 THEN Num(d) ELSE v

(* What the user may have typed into #epochs.                              *)
EpochTexts == { <<"-", "3">>, <<" ", "2", ".", "7">> }

(* Requests for a number of epochs: the text typed and the number it       *)
(* denotes.                                                                *)
EpochRequests ==
    { [text |-> <<"-", "3">>,           value |-> Num(0 - 3)],
      [text |-> <<" ", "2", ".", "7">>, value |-> Frac(27, 10)],
      [text |-> <<"0">>,                value |-> Num(0)],
      [text |-> <<"7">>,                value |-> Num(7)] }
(* Requests that name no number of epochs: #epochs left empty, or holding  *)
(* something that is not a number.                                         *)
MissingRequests ==
    { [text |-> <<>>,                    value |-> Undefined],
      [text |-> <<"a", "b", "c">>,       value |-> NaN] }
RequestedValue(text) ==
    (CHOOSE q \in EpochRequests \cup MissingRequests : q.text = text).value

(* ------------------------------ state --------------------------------- *)
VARIABLES
    model,              \* GRUModel.model: 0 is null, n > 0 the n-th backend model
    isTrained,          \* GRUModel.isTrained
    trainingHistory,    \* GRUModel.trainingHistory: 0 is null, n a history of n epochs
    predictionHorizon,  \* GRUModel.predictionHorizon
    live,               \* backend: model instances allocated and not disposed
    nextInst,           \* backend: id of the next instance tf.sequential() returns
    released,           \* backend: the instances model.dispose() was called on, in order
    fitted,             \* backend: the live instances on which a fit has run to its end
    lastCall,           \* the buildModel(), dispose() or evaluate() call made last
    runs,               \* one record per call of GRUModel.train, in call order
    settled,            \* the train() call whose promise settled last
    preds,              \* one record per call of GRUModel.predict, in call order
    returned,           \* the predict() call that finished last
    now,                \* Date.now()
    version,            \* which StockPredictorApp the page runs: "app" | "legacy"
    isTraining,         \* StockPredictorApp.isTraining
    predictions,        \* StockPredictorApp.predictions: <<>> is null
    trainingStatus,     \* #trainingStatus: [type, text, detail]
    trainBtnDisabled,   \* #trainBtn.disabled
    predictBtnDisabled, \* #predictBtn.disabled
    loadBtnDisabled,    \* #loadDataBtn.disabled
    metrics,            \* what onTrainEnd showed: "none" | "placeholder" | "real"
    dataLoaded,         \* DataLoader holds X_train, y_train, X_test, y_test, normalizedData
    loading,            \* loadCSVFromGitHub calls in flight: sequence of "auto" | "manual"
    calls,              \* operations requested so far
    windowSize,         \* GRUModel.windowSize
    batchSize,          \* GRUModel.batchSize
    normalizedData,     \* DataLoader.normalizedData as makePredictions reads it
    inputTensor,        \* makePredictions: the input it prepared, or the error it raised
    historicalData,     \* DataLoader.getHistoricalData(): the prices to plot
    chart,              \* createCombinedChart: the datasets it built, or the error it raised
    series,             \* DataLoader: the series it holds, 0 for none, else its id
    insights,           \* StockPredictorApp.insights: 0 is null, else the id of the
                        \* series they were computed from
    shownInsights,      \* #metricsContainer: the insights whose cards it shows, 0 for none
    viewBtnDisabled,    \* #viewDataBtn.disabled
    charts,             \* StockPredictorApp.charts and the 'predictionChart' canvas
    loadingTimeout,     \* StockPredictorApp.loadingTimeout and the timer it names
    dataStatus,         \* #dataStatus: [type, text, detail]
    sinceReload         \* mark: the next instance id when the last reload began, 0 once
                        \* a training run has started since (or without a reload);
                        \* inst: the instance of the latest run started since, 0 for none

gruVars == <<model, isTrained, trainingHistory, predictionHorizon, live, nextInst,
             released, fitted, lastCall>>
appVars == <<version, isTraining, predictions, trainingStatus, trainBtnDisabled,
             predictBtnDisabled, loadBtnDisabled, metrics, dataLoaded, loading>>
vars == <<model, isTrained, trainingHistory, predictionHorizon, live, nextInst,
          released, fitted, lastCall,
          runs, settled, preds, returned, now, version, isTraining, predictions,
          trainingStatus,
          trainBtnDisabled, predictBtnDisabled, loadBtnDisabled, metrics,
          dataLoaded, loading, calls,
          windowSize, batchSize, normalizedData, inputTensor, historicalData, chart,
          series, insights, shownInsights, viewBtnDisabled, charts, sinceReload,
          loadingTimeout, dataStatus>>
(* The loaded series, the insights computed from it and the charts drawn.   *)
dataVars == <<series, insights, shownInsights, viewBtnDisabled, charts>>
(* The constructor arguments kept by the GRUModel, and the inputs and        *)
(* results of the two computations of the page that are checked on their own. *)
configVars == <<windowSize, batchSize>>
loadVars == <<loadingTimeout, dataStatus>>
pureVars == <<normalizedData, inputTensor, historicalData, chart>>

(* A status line of the page: updateStatus(element, text, type).           *)
Status(type, text, detail) == [type |-> type, text |-> text, detail |-> detail]
NoStatus == Status("", "", "")

(* ------------------------------ GRUModel ------------------------------ *)
(* The mutable fields of a GRUModel together with the backend's instances. *)
G == [model |-> model, isTrained |-> isTrained, live |-> live, nextInst |-> nextInst,
      released |-> released, fitted |-> fitted, lastCall |-> lastCall]

SetG(g) ==
    /\ model' = g.model
    /\ isTrained' = g.isTrained
    /\ live' = g.live
    /\ nextInst' = g.nextInst
    /\ released' = g.released
    /\ fitted' = g.fitted
    /\ lastCall' = g.lastCall

(* A slip that swaps the two defaults of the constructor.                  *)
constructorSwapped(windowSizeArg, horizonArg) ==
    [windowSize        |-> IF windowSizeArg.t = "undefined" THEN DefaultHorizon
                           ELSE windowSizeArg.num,
     predictionHorizon |-> IF horizonArg.t = "undefined" THEN DefaultWindow
                           ELSE horizonArg.num,
     batchSize         |-> DefaultBatchSize]

(* constructor(windowSize = 60, predictionHorizon = 5), lines 3-10: a       *)
(* default replaces an argument that is undefined.                          *)
constructor(windowSizeArg, horizonArg) ==
    [windowSize        |-> IF windowSizeArg.t = "undefined" THEN DefaultWindow
                           ELSE windowSizeArg.num,
     predictionHorizon |-> IF horizonArg.t = "undefined" THEN DefaultHorizon
                           ELSE horizonArg.num,
     batchSize         |-> DefaultBatchSize]

(* The fields a constructor call leaves in the GRUModel.                    *)
Constructed(m) ==
    /\ windowSize = m.windowSize
    /\ predictionHorizon = m.predictionHorizon
    /\ batchSize = m.batchSize

(* Metrics in thousandths: the fixed set of lines 159 and 178, and what a  *)
(* backend evaluation gives (rmse = sqrt(mse)).                            *)
EvaluatePlaceholder == [loss |-> 1, mse |-> 1, rmse |-> 32]
BackendMetrics == [loss |-> 4, mse |-> 4, rmse |-> 63]
NoMetrics == [loss |-> 0, mse |-> 0, rmse |-> 0]

(* The record of one synchronous call, buildModel(), dispose() or          *)
(* evaluate(): the fields before and after it, how many backend instances  *)
(* it released, whether it threw; for evaluate also whether model.evaluate *)
(* of the backend was called, whether that raised, and the metrics         *)
(* returned.                                                               *)
CallRecord(op, g0, g1) ==
    [op |-> op,
     preModel |-> g0.model, preTrained |-> g0.isTrained,
     postModel |-> g1.model, postTrained |-> g1.isTrained,
     releases |-> Len(g1.released) - Len(g0.released),
     threw |-> FALSE,
     backend |-> FALSE, failed |-> FALSE, result |-> NoMetrics]

NoCall ==
    [op |-> "none", preModel |-> 0, preTrained |-> FALSE, postModel |-> 0,
     postTrained |-> FALSE, releases |-> 0, threw |-> FALSE,
     backend |-> FALSE, failed |-> FALSE, result |-> NoMetrics]

(* A slip that drops the handle without releasing the instance.            *)
ReleaseHeldLeaky(g) == g

(* `if (this.model) this.model.dispose()`, lines 13-15 and 183-184.        *)
ReleaseHeld(g) ==
    IF g.model # 0
    THEN [g EXCEPT !.live = @ \ {g.model}, !.released = Append(@, g.model),
                   !.fitted = @ \ {g.model}]
    ELSE g

(* A slip that leaves isTrained as it was.                                 *)
buildModelKeepsTrained(g) ==
    LET g1 == [ReleaseHeld(g) EXCEPT !.model = g.nextInst,
                                     !.live = @ \cup {g.nextInst},
                                     !.nextInst = @ + 1]
    IN  [g1 EXCEPT !.lastCall = CallRecord("buildModel", g, g1)]

(* buildModel(): dispose the held instance, allocate and compile a new one, *)
(* isTrained = false.                                                       *)
buildModel(g) ==
    LET g1 == [ReleaseHeld(g) EXCEPT !.model = g.nextInst,
                                     !.isTrained = FALSE,
                                     !.live = @ \cup {g.nextInst},
                                     !.nextInst = @ + 1]
    IN  [g1 EXCEPT !.lastCall = CallRecord("buildModel", g, g1)]

(* A slip that releases the instance but keeps the handle.                 *)
disposeKeepsHandle(g) ==
    LET g1 == [ReleaseHeld(g) EXCEPT !.isTrained = FALSE]
    IN  [g1 EXCEPT !.lastCall = CallRecord("dispose", g, g1)]

(* dispose(): release the held instance if any, model = null, isTrained = false. *)
dispose(g) ==
    LET g1 == [ReleaseHeld(g) EXCEPT !.model = 0, !.isTrained = FALSE]
    IN  [g1 EXCEPT !.lastCall = CallRecord("dispose", g, g1)]

(* train(), lines 55-58: a missing model is built on the spot.             *)
TrainEnsureModel(g) == IF g.model = 0 THEN buildModel(g) ELSE g

(* train(), lines 64-73: the epochs argument after normalisation.          *)
Floor(v) == v.num \div v.den
EpochsOrDefault(v) == IF v.t # "number" THEN Num(DefaultEpochs) ELSE v
ClampEpochs(v) == Max(1, Floor(v))
TrainEpochs(v) == ClampEpochs(EpochsOrDefault(v))

(* Which callbacks the caller passed: the closures of app.js, those of the *)
(* legacy app, a recording probe with both callbacks, an object whose two  *)
(* callbacks throw as soon as they are called, {} ("none"), or null.       *)
CallbackKinds == {"app", "legacy", "probe", "throwing", "none", "null"}
HasOnEpochEnd(cbs) == cbs \in {"app", "legacy", "probe", "throwing"}
HasOnTrainEnd(cbs) == cbs \in {"app", "legacy", "probe", "throwing"}
CallbackThrows(cbs) == cbs = "throwing"

(* train(), lines 47 and 64-67: the callbacks after normalisation.  cbs is *)
(* the callbacks object of the call: the third argument when that is an    *)
(* object, the fourth otherwise ({} when it is not passed).  A null third  *)
(* argument is an object for typeof and becomes the callbacks.             *)
TrainCallbacks(epochsArg, cbs) ==
    IF TypeofObject(epochsArg) /\ epochsArg.t = "null" THEN "null" ELSE cbs

(* Lines 93 and 113: reading callbacks.onEpochEnd or callbacks.onTrainEnd  *)
(* raises a TypeError when callbacks is null.                              *)
CallbackLookupRaises(cbs) == cbs = "null"

(* A slip that calls the caller's callback outside any try.                *)
CallbackTryMissing(threw) == IF threw THEN "raised" ELSE "ok"

(* Lines 94-102 and 114-118: the caller's callback is called inside        *)
(* try/catch, which logs what it throws and goes on.                       *)
CallbackTry(threw) == IF threw THEN "caught" ELSE "ok"

(* What one run of train()'s onEpochEnd or onTrainEnd does with the        *)
(* caller's callback: "raised" when an exception leaves it, "caught" when  *)
(* the callback threw and that was logged, "ok" otherwise.                 *)
CallbackOutcome(cbs, has) ==
    IF CallbackLookupRaises(cbs) THEN "raised"
    ELSE IF has THEN CallbackTry(CallbackThrows(cbs))
    ELSE "ok"
OnEpochEndOutcome(cbs) == CallbackOutcome(cbs, HasOnEpochEnd(cbs))
OnTrainEndOutcome(cbs) == CallbackOutcome(cbs, HasOnTrainEnd(cbs))

(* A slip that hands the caller the one-based currentEpoch of line 91.     *)
CallbackEpochOneBased(epoch) == epoch + 1

(* onEpochEnd of train(), line 95: the epoch index handed to the caller.   *)
CallbackEpoch(epoch) == epoch

(* (n / d) * 100 as a fraction with a positive denominator; d is not 0.    *)
Percent(n, d) == IF d > 0 THEN Frac(100 * n, d) ELSE Frac(0 - 100 * n, 0 - d)

(* onEpochEnd of train(), lines 91 and 98: (currentEpoch / epochs) * 100,  *)
(* with the epochs of line 73.                                             *)
TrainProgress(epoch, epochs) == Percent(epoch + 1, epochs)

(* A slip that counts the epochs from one.                                 *)
YieldsAfterOneBased(epoch) == (epoch + 1) % YieldEvery = 0

(* onEpochEnd of train(), line 105: yield to the scheduler after this epoch. *)
YieldsAfter(epoch) == epoch % YieldEvery = 0

(* catch of train(), lines 129-133: the flag it sets and what it throws.   *)
TrainCatchIsTrained(before) == TRUE
TrainCatchRethrow(error) == error

NoError == [message |-> ""]
MissingData == [message |-> "Training data not provided"]
BackendErrors == { [message |-> "backend fault"] }
(* What the caller's callback threw, and the TypeError of a lookup on null. *)
CallbackError == [message |-> "callback failed"]
LookupError == [message |-> "Cannot read properties of null"]
CallbackRaised(cbs) == IF CallbackLookupRaises(cbs) THEN LookupError ELSE CallbackError

(* A slip that passes the configured batch size as it is.                  *)
TrainBatchSizeFixed(configured, sampleCount) == configured

(* train(), lines 75-76: the batch size handed to model.fit.               *)
TrainBatchSize(configured, sampleCount) == Min(configured, sampleCount)

(* The record of one train() call.  pc: "threw" (rejected before fit),     *)
(* "fit" (awaiting the backend), "yield" (awaiting tf.nextFrame),          *)
(* "ended" (onTrainEnd has run, fit not yet resolved), "resolved",         *)
(* "rejected".  asked is the number of epochs the caller of the handler or *)
(* of train() asked for, reqEpochs the argument train() received;          *)
(* samples is X_train.shape[0] and batchSize the batch size given to fit.  *)
(* entry is this.model.model when the page's handler was entered, mark and *)
(* prevInst are sinceReload at that moment.  pre* are the fields of the    *)
(* model when train was called,                                            *)
(* post* those when its promise settled; raised is the error the backend   *)
(* raised, error the one train() threw, shown the status its caller's      *)
(* catch displayed.  lastEpochUpdate is the variable of the caller's       *)
(* closure; cbLog, delivered and yieldLog record what the run has done,    *)
(* progressLog the logs.progress handed to the caller's onEpochEnd, caught *)
(* the number of exceptions of the caller's callbacks that were logged.    *)
(* While a call is in flight its record is in runs; when its promise       *)
(* settles the record moves to settled, without the closure and its logs.  *)
NewRun(cbs, reqEpochs, g0, g1, hasData) ==
    [cbs        |-> TrainCallbacks(reqEpochs, cbs),
     entry      |-> 0,
     mark       |-> 0,
     prevInst   |-> 0,
     asked      |-> reqEpochs,
     reqEpochs  |-> reqEpochs,
     samples    |-> IF hasData THEN LoadedSamples ELSE 0,
     batchSize  |-> IF hasData THEN TrainBatchSize(batchSize, LoadedSamples) ELSE 0,
     epochs     |-> TrainEpochs(reqEpochs),
     inst       |-> g1.model,
     pc         |-> IF hasData THEN "fit" ELSE "threw",
     epoch      |-> 0,
     lastEpochUpdate |-> 0,
     cbLog      |-> <<>>,
     caught     |-> 0,
     progressLog |-> <<>>,
     delivered  |-> <<>>,
     yieldLog   |-> <<>>,
     trainEnds  |-> 0,
     raised     |-> NoError,
     error      |-> IF hasData THEN NoError ELSE MissingData,
     shown      |-> NoStatus,
     preModel   |-> g0.model,
     preTrained |-> g0.isTrained,
     postModel  |-> g1.model,
     postTrained |-> g1.isTrained]

Settled(run, pc, raised, error, shown, m, t) ==
    [run EXCEPT !.pc = pc, !.raised = raised, !.error = error, !.shown = shown,
                !.postModel = m, !.postTrained = t,
                !.lastEpochUpdate = 0, !.cbLog = <<>>, !.progressLog = <<>>,
                !.delivered = <<>>,
                !.yieldLog = <<>>]

Remove(seq, i) == SubSeq(seq, 1, i - 1) \o SubSeq(seq, i + 1, Len(seq))

NoRun == [NewRun("none", Num(0), [model |-> 0, isTrained |-> FALSE],
                 [model |-> 0, isTrained |-> FALSE], TRUE) EXCEPT !.pc = "none"]

(* A new train() call: in flight, or already rejected for missing data.    *)
StartRun(run) ==
    IF run.pc = "threw"
    THEN UNCHANGED runs /\ settled' = run
    ELSE runs' = Append(runs, run) /\ UNCHANGED settled

(* The promise of call r settles with the record rec.                      *)
SettleRun(r, rec) ==
    /\ runs' = Remove(runs, r)
    /\ settled' = rec

(* A slip that looks only at the model and forgets the flag.               *)
EvaluateSkipsBackendNoFlag(g) == g.model = 0

(* evaluate(), line 158: the early return.                                 *)
EvaluateSkipsBackend(g) == g.model = 0 \/ ~g.isTrained

(* evaluate(): the placeholder unless a trained model exists and the       *)
(* backend evaluation succeeds.                                            *)
evaluate(g, hasTestData, backendOk) ==
    IF EvaluateSkipsBackend(g) THEN "placeholder"
    ELSE IF hasTestData /\ backendOk THEN "real"
    ELSE "placeholder"

(* The record of one evaluate() call; missing test tensors raise inside    *)
(* the try like a backend fault.                                           *)
EvaluateCall(g, hasTestData, backendOk) ==
    LET kind == evaluate(g, hasTestData, backendOk)
    IN  [CallRecord("evaluate", g, g) EXCEPT
           !.backend = ~EvaluateSkipsBackend(g),
           !.failed  = ~EvaluateSkipsBackend(g) /\ ~(hasTestData /\ backendOk),
           !.result  = IF kind = "real" THEN BackendMetrics ELSE EvaluatePlaceholder]

InFlight(run) == run.pc \in {"fit", "yield", "ended"}

(* ------------------------- StockPredictorApp -------------------------- *)
(* fastTrainModel, line 488: parseInt(#epochs.value) || 12.                *)
AppEpochs(text) == OrDefault(ParseInt(text), DefaultEpochs)

(* A slip that lets an update through at exactly the interval.             *)
ThrottlePassInclusive(t, lastEpochUpdate) == t - lastEpochUpdate >= ThrottleMs

(* onEpochEnd of fastTrainModel, line 512: the throttle.                   *)
ThrottlePass(t, lastEpochUpdate) == t - lastEpochUpdate > ThrottleMs

(* onEpochEnd of fastTrainModel, line 513, and of the legacy one: the      *)
(* width given to #progressFill, ((epoch + 1) / epochs) * 100 with the     *)
(* epochs of line 488.                                                     *)
AppProgress(epoch, epochs) == Percent((epoch + 1) * epochs.den, epochs.num)

(* onEpochEnd of fastTrainModel, lines 509-524: the run after the callback. *)
AppOnEpochEnd(run, epoch, t) ==
    IF ThrottlePass(t, run.lastEpochUpdate)
    THEN [run EXCEPT !.delivered = Append(@, [epoch |-> epoch, at |-> t,
                                              progress |-> AppProgress(epoch, run.reqEpochs)]),
                     !.lastEpochUpdate = t]
    ELSE run

(* onEpochEnd of the legacy fastTrainModel: every epoch is shown.          *)
LegacyOnEpochEnd(run, epoch, t) ==
    [run EXCEPT !.delivered = Append(@, [epoch |-> epoch, at |-> t,
                                         progress |-> AppProgress(epoch, run.reqEpochs)])]

(* A slip that leaves the guard set when training ends.                    *)
OnTrainEndKeepsIsTraining(before) == before

(* onTrainEnd of fastTrainModel, line 527, and its catch, line 555:        *)
(* this.isTraining = false.                                                *)
OnTrainEndIsTraining(before) == FALSE
CatchIsTraining(before) == FALSE

(* catch of fastTrainModel, lines 564-567, and of the legacy one.          *)
AppCatchStatus(error) == Status("error", "Training error", error.message)
LegacyCatchStatus(error) == Status("warning", "Training completed (optimized mode)", "")
CatchStatus(v, error) == IF v = "legacy" THEN LegacyCatchStatus(error) ELSE AppCatchStatus(error)

(* A slip that builds a new model for every run.                           *)
AppNeedsBuildAlways(g) == TRUE

(* fastTrainModel, line 502: `if (!this.model.model)`.                      *)
AppNeedsBuild(g) == g.model = 0

(* fastTrainModel(): the click handler up to `await this.model.train(...)`, *)
(* and through its catch when train throws before it suspends.  A click     *)
(* while isTraining returns at once and changes nothing.                    *)
fastTrainModel(text) ==
    /\ version = "app"
    /\ ~trainBtnDisabled
    /\ ~isTraining
    /\ calls < MaxCalls
    /\ calls' = calls + 1
    /\ LET epochs == AppEpochs(text)
           g1     == IF AppNeedsBuild(G) THEN buildModel(G) ELSE G
           g2     == TrainEnsureModel(g1)
           run0   == [NewRun("app", epochs, g1, g2, dataLoaded)
                        EXCEPT !.asked = RequestedValue(text),
                               !.entry = model,
                               !.mark = sinceReload.mark,
                               !.prevInst = sinceReload.inst]
           run    == IF dataLoaded THEN run0
                     ELSE [run0 EXCEPT !.shown = AppCatchStatus(TrainCatchRethrow(run0.error))]
       IN  /\ SetG(g2)
           /\ sinceReload' = [mark |-> 0, inst |-> run.inst]
           /\ StartRun(run)
           /\ IF dataLoaded
              THEN /\ isTraining' = TRUE
                   /\ trainingStatus' = Status("info", "Starting ultra-fast training", "")
                   /\ UNCHANGED predictBtnDisabled
              ELSE /\ isTraining' = CatchIsTraining(TRUE)
                   /\ predictBtnDisabled' = FALSE
                   /\ trainingStatus' = AppCatchStatus(TrainCatchRethrow(run.error))
    /\ UNCHANGED <<trainingHistory, predictionHorizon, preds, returned, now, version, predictions,
                   trainBtnDisabled, loadBtnDisabled, metrics, dataLoaded, loading>>
    /\ UNCHANGED <<configVars, pureVars, dataVars, loadVars>>

(* The legacy fastTrainModel (part_001): no build of its own, no throttle.  *)
LegacyFastTrainModel(text) ==
    /\ version = "legacy"
    /\ ~trainBtnDisabled
    /\ ~isTraining
    /\ calls < MaxCalls
    /\ calls' = calls + 1
    /\ LET epochs == AppEpochs(text)
           g2     == TrainEnsureModel(G)
           run0   == [NewRun("legacy", epochs, G, g2, dataLoaded)
                        EXCEPT !.asked = RequestedValue(text),
                               !.entry = model,
                               !.mark = sinceReload.mark,
                               !.prevInst = sinceReload.inst]
           run    == IF dataLoaded THEN run0
                     ELSE [run0 EXCEPT !.shown = LegacyCatchStatus(TrainCatchRethrow(run0.error))]
       IN  /\ SetG(g2)
           /\ sinceReload' = [mark |-> 0, inst |-> run.inst]
           /\ StartRun(run)
           /\ IF dataLoaded
              THEN /\ isTraining' = TRUE
                   /\ trainingStatus' = Status("info", "Starting ultra-fast training", "")
                   /\ UNCHANGED predictBtnDisabled
              ELSE /\ isTraining' = CatchIsTraining(TRUE)
                   /\ predictBtnDisabled' = FALSE
                   /\ trainingStatus' = LegacyCatchStatus(TrainCatchRethrow(run.error))
    /\ UNCHANGED <<trainingHistory, predictionHorizon, preds, returned, now, version, predictions,
                   trainBtnDisabled, loadBtnDisabled, metrics, dataLoaded, loading>>
    /\ UNCHANGED <<configVars, pureVars, dataVars, loadVars>>

(* ------------------- the training run, step by step ------------------- *)
(* The backend finishes epoch runs[r].epoch, d milliseconds after the last   *)
(* reading of the clock, and calls train()'s onEpochEnd: the caller's        *)
(* onEpochEnd inside try/catch, then a yield every third epoch.  An epoch    *)
(* reads the weights of the instance fit was called on, so it can only be    *)
(* finished while that instance is not disposed; otherwise fit fails.  An    *)
(* exception that leaves onEpochEnd rejects fit, and the catch of train()    *)
(* runs and rethrows it.                                                     *)
FitEpochEnd(r, d) ==
    /\ r \in 1..Len(runs)
    /\ runs[r].pc = "fit"
    /\ runs[r].epoch < runs[r].epochs
    /\ runs[r].inst \in live
    /\ LET run   == runs[r]
           e     == run.epoch
           arg   == CallbackEpoch(e)
           out   == OnEpochEndOutcome(run.cbs)
           run1  == IF HasOnEpochEnd(run.cbs) /\ ~CallbackLookupRaises(run.cbs)
                    THEN [run EXCEPT !.cbLog = Append(@, arg),
                                     !.progressLog =
                                         Append(@, TrainProgress(e, run.epochs)),
                                     !.caught = IF out = "caught" THEN @ + 1 ELSE @]
                    ELSE run
           run2  == CASE run.cbs = "app"    -> AppOnEpochEnd(run1, arg, now + d)
                      [] run.cbs = "legacy" -> LegacyOnEpochEnd(run1, arg, now + d)
                      [] OTHER              -> run1
           run3  == [run2 EXCEPT !.epoch = e + 1,
                                 !.pc = IF YieldsAfter(e) THEN "yield" ELSE "fit",
                                 !.yieldLog = IF YieldsAfter(e) THEN Append(@, e) ELSE @]
           thrown == TrainCatchRethrow(CallbackRaised(run.cbs))
       IN  IF out = "raised"
           THEN /\ SettleRun(r, Settled(run1, "rejected", CallbackRaised(run.cbs), thrown,
                                        NoStatus, model, TrainCatchIsTrained(isTrained)))
                /\ isTrained' = TrainCatchIsTrained(isTrained)
                /\ UNCHANGED trainingStatus
           ELSE /\ runs' = [runs EXCEPT ![r] = run3]
                /\ UNCHANGED <<settled, isTrained>>
                /\ trainingStatus' = IF Len(run2.delivered) > Len(run.delivered)
                                     THEN Status("info", "Epoch", "") ELSE trainingStatus
    /\ now' = now + d
    /\ UNCHANGED <<model, trainingHistory, predictionHorizon, live, nextInst, released,
                   fitted, lastCall, preds, returned, version, isTraining, predictions,
                   trainBtnDisabled, predictBtnDisabled, loadBtnDisabled, metrics,
                   dataLoaded, loading, calls>>
    /\ UNCHANGED <<configVars, pureVars, dataVars, sinceReload, loadVars>>

(* tf.nextFrame() resolves: onEpochEnd returns and fit goes on.            *)
FitResume(r) ==
    /\ r \in 1..Len(runs)
    /\ runs[r].pc = "yield"
    /\ runs' = [runs EXCEPT ![r].pc = "fit"]
    /\ UNCHANGED settled
    /\ UNCHANGED <<gruVars, preds, returned, now, appVars, calls>>
    /\ UNCHANGED <<configVars, pureVars, dataVars, sinceReload, loadVars>>

(* All epochs are done: fit calls train()'s onTrainEnd, which sets          *)
(* isTrained and calls the caller's onTrainEnd inside try/catch.  The       *)
(* app's onTrainEnd clears isTraining, enables #predictBtn and evaluates.   *)
(* An exception that leaves onTrainEnd rejects fit.                         *)
FitTrainEnd(r, evalOk) ==
    /\ r \in 1..Len(runs)
    /\ runs[r].pc = "fit"
    /\ runs[r].epoch = runs[r].epochs
    /\ LET out  == OnTrainEndOutcome(runs[r].cbs)
           run1 == [runs[r] EXCEPT
                      !.trainEnds = IF HasOnTrainEnd(runs[r].cbs)
                                       /\ ~CallbackLookupRaises(runs[r].cbs)
                                    THEN @ + 1 ELSE @,
                      !.caught = IF out = "caught" THEN @ + 1 ELSE @]
       IN  IF out = "raised"
           THEN SettleRun(r, Settled(run1, "rejected", CallbackRaised(runs[r].cbs),
                                     TrainCatchRethrow(CallbackRaised(runs[r].cbs)),
                                     NoStatus, model, TRUE))
           ELSE /\ runs' = [runs EXCEPT ![r] = [run1 EXCEPT !.pc = "ended"]]
                /\ UNCHANGED settled
    /\ isTrained' = TRUE
    /\ fitted' = IF runs[r].inst \in live THEN fitted \cup {runs[r].inst} ELSE fitted
    /\ IF runs[r].cbs \in {"app", "legacy"}
       THEN /\ isTraining' = OnTrainEndIsTraining(isTraining)
            /\ predictBtnDisabled' = FALSE
            /\ metrics' = evaluate([G EXCEPT !.isTrained = TRUE], dataLoaded, evalOk)
            /\ lastCall' = EvaluateCall([G EXCEPT !.isTrained = TRUE], dataLoaded, evalOk)
            /\ trainingStatus' = Status("success", "Training completed", "")
       ELSE UNCHANGED <<isTraining, predictBtnDisabled, metrics, lastCall, trainingStatus>>
    /\ UNCHANGED <<model, trainingHistory, predictionHorizon, live, nextInst, released, preds, returned, now,
                   version, predictions, trainBtnDisabled, loadBtnDisabled, dataLoaded,
                   loading, calls>>
    /\ UNCHANGED <<configVars, pureVars, dataVars, sinceReload, loadVars>>

(* The promise of fit resolves: train() stores the history, sets isTrained  *)
(* and returns; the await in fastTrainModel completes.                      *)
FitResolve(r) ==
    /\ r \in 1..Len(runs)
    /\ runs[r].pc = "ended"
    /\ SettleRun(r, Settled(runs[r], "resolved", NoError, NoError, NoStatus, model, TRUE))
    /\ trainingHistory' = runs[r].epochs
    /\ isTrained' = TRUE
    /\ UNCHANGED <<model, predictionHorizon, live, nextInst, released, fitted, lastCall,
                   preds, returned, now, appVars, calls>>
    /\ UNCHANGED <<configVars, pureVars, dataVars, sinceReload, loadVars>>

(* The backend raises while computing an epoch: fit rejects, the catch of   *)
(* train() runs and rethrows, and the catch of fastTrainModel runs.         *)
FitFail(r, error) ==
    /\ r \in 1..Len(runs)
    /\ runs[r].pc = "fit"
    /\ runs[r].epoch < runs[r].epochs
    /\ LET thrown == TrainCatchRethrow(error)
           shown  == IF runs[r].cbs \in {"app", "legacy"}
                     THEN CatchStatus(runs[r].cbs, thrown) ELSE NoStatus
       IN  /\ SettleRun(r, Settled(runs[r], "rejected", error, thrown, shown,
                                    model, TrainCatchIsTrained(isTrained)))
           /\ isTrained' = TrainCatchIsTrained(isTrained)
           /\ IF runs[r].cbs \in {"app", "legacy"}
              THEN /\ isTraining' = CatchIsTraining(isTraining)
                   /\ predictBtnDisabled' = FALSE
                   /\ trainingStatus' = CatchStatus(runs[r].cbs, thrown)
              ELSE UNCHANGED <<isTraining, predictBtnDisabled, trainingStatus>>
    /\ UNCHANGED <<model, trainingHistory, predictionHorizon, live, nextInst, released,
                   fitted, lastCall, preds, returned, now,
                   version, predictions, trainBtnDisabled, loadBtnDisabled, metrics,
                   dataLoaded, loading, calls>>
    /\ UNCHANGED <<configVars, pureVars, dataVars, sinceReload, loadVars>>

(* ------------------------------ predict ------------------------------- *)
(* A slip that fills a fixed five zeros whatever the horizon.              *)
PredictFallbackFixed(h) == << [i \in 1..DefaultHorizon |-> 0] >>

(* predict(), line 153: [Array(this.predictionHorizon).fill(0)].           *)
PredictFallback(h) == << [i \in 1..h |-> 0] >>

(* predict(), lines 145-154: what the call returns; row is the backend's    *)
(* output for the one window when there is no fault.                        *)
PredictReturn(fault, row, h) == IF fault THEN PredictFallback(h) ELSE <<row>>

(* Outputs of the network for one window: normalised values 0 or 1.        *)
GenuineRows(h) == { [i \in 1..h |-> 0], [i \in 1..h |-> 1] }

(* DataLoader.denormalize: value * (max - min) + min.                      *)
denormalize(v) == v * (NormMax - NormMin) + NormMin

(* The record of one predict() call.  pc: "nodata" (makePredictions threw  *)
(* before calling predict), "threw" (no input), "array" (awaiting           *)
(* predictions.array()), "returned".  fault: the backend raised; result:    *)
(* what predict returned; shown: the status makePredictions ended with.     *)
(* A call awaiting array() has its record in preds; when it finishes the    *)
(* record moves to returned.  preModel and postModel are this.model when    *)
(* the call was made and when it first gave up control; reloaded tells      *)
(* that a reload began while the call was awaiting array().                 *)
NewPred(caller, pc, fault, result, shown) ==
    [caller |-> caller, pc |-> pc, fault |-> fault, result |-> result, shown |-> shown,
     preModel |-> model, postModel |-> model, reloaded |-> FALSE]

NoPred == NewPred("none", "none", FALSE, <<>>, NoStatus)

(* predict(), lines 137-139: a missing model is built on the spot.         *)
PredictEnsureModel(g) == IF g.model = 0 THEN buildModel(g) ELSE g

StartPred(pred, g1) ==
    LET call == [pred EXCEPT !.postModel = g1.model]
    IN  IF call.pc = "array"
        THEN preds' = Append(preds, call) /\ UNCHANGED returned
        ELSE UNCHANGED preds /\ returned' = call

PredictionsGenerated == Status("success", "Predictions generated", "")
NotEnoughData == Status("warning", "Not enough normalized data for predictions", "")

(* ------------------------------- charts ------------------------------- *)
(* The two entries of this.charts that are drawn on the 'predictionChart'  *)
(* canvas: 1 when the entry holds a chart, 0 when it is null.  orphans is  *)
(* the number of charts on that canvas that were overwritten in the table  *)
(* without having been destroyed.                                          *)
NoCharts == [volatility |-> 0, returnsComparison |-> 0, orphans |-> 0]
LiveOnCanvas(c) == c.volatility + c.returnsComparison + c.orphans

(* destroyChart(chartName), lines 46-55.                                   *)
destroyChart(c, chartName) == [c EXCEPT ![chartName] = 0]

(* Object.keys(this.charts).forEach(chart => this.destroyChart(chart)),    *)
(* lines 141 and 820: the charts the table holds.                          *)
DestroyCharts(c) == destroyChart(destroyChart(c, "volatility"), "returnsComparison")

(* this.charts[chartName] = new Chart(ctx, ...) on the 'predictionChart'   *)
(* canvas.  The Chart library is not part of the repository: one that      *)
(* refuses a canvas in use throws from the constructor, another one draws  *)
(* the new chart over the old.                                             *)
ChartRefused(c, refuses) == refuses /\ LiveOnCanvas(c) > 0
NewChart(c, chartName, refuses) ==
    IF ChartRefused(c, refuses) THEN c
    ELSE [c EXCEPT ![chartName] = 1, !.orphans = @ + c[chartName]]

(* createVolatilityChart(), lines 373-401: nothing without insights.       *)
createVolatilityChart(c, ins, refuses) ==
    IF ins = 0 THEN c
    ELSE NewChart(destroyChart(c, "volatility"), "volatility", refuses)

(* createReturnsComparisonChart(), lines 676-707: nothing without          *)
(* historical data; it destroys 'volatility', not 'returnsComparison'.     *)
createReturnsComparisonChart(c, hasHistory, refuses) ==
    IF ~hasHistory THEN c
    ELSE NewChart(destroyChart(c, "volatility"), "returnsComparison", refuses)
VolatilityChartThrows(c, ins, refuses) ==
    ins # 0 /\ ChartRefused(destroyChart(c, "volatility"), refuses)
ReturnsChartThrows(c, hasHistory, refuses) ==
    hasHistory /\ ChartRefused(destroyChart(c, "volatility"), refuses)

(* The catch of makePredictions, lines 629-632, after the constructor threw. *)
CanvasInUse == Status("warning", "Canvas is already in use", "")
PredictionsShown(c, hasHistory, refuses) ==
    IF ReturnsChartThrows(c, hasHistory, refuses) THEN CanvasInUse ELSE PredictionsGenerated

(* makePredictions, lines 613-627: the continuation after model.predict.   *)
MakePredictionsResume(result, refuses) ==
    /\ predictions' = [i \in 1..Len(result[1]) |-> denormalize(result[1][i])]
    /\ charts' = createReturnsComparisonChart(charts, dataLoaded, refuses)
    /\ trainingStatus' = PredictionsShown(charts, dataLoaded, refuses)

(* makePredictions(): the click handler up to `await this.model.predict`;   *)
(* when model.predict(X) raises synchronously predict returns the fallback  *)
(* and the handler runs to its end.                                         *)
makePredictions(syncFault) ==
    /\ version \in {"app", "legacy"}
    /\ ~predictBtnDisabled
    /\ calls < MaxCalls
    /\ calls' = calls + 1
    /\ IF ~dataLoaded
       THEN /\ trainingStatus' = NotEnoughData
            /\ StartPred(NewPred("app", "nodata", FALSE, <<>>, NotEnoughData), G)
            /\ UNCHANGED <<model, isTrained, live, nextInst, released, fitted, lastCall,
                           predictions, charts>>
       ELSE /\ SetG(PredictEnsureModel(G))
            /\ IF syncFault
               THEN \E refuses \in BOOLEAN :
                    /\ StartPred(NewPred("app", "returned", TRUE,
                                              PredictReturn(TRUE, <<>>, predictionHorizon),
                                              PredictionsShown(charts, dataLoaded, refuses)),
                                 PredictEnsureModel(G))
                    /\ MakePredictionsResume(PredictReturn(TRUE, <<>>, predictionHorizon),
                                             refuses)
               ELSE /\ StartPred(NewPred("app", "array", FALSE, <<>>, NoStatus),
                                 PredictEnsureModel(G))
                    /\ trainingStatus' = Status("info", "Generating predictions", "")
                    /\ UNCHANGED <<predictions, charts>>
    /\ UNCHANGED <<trainingHistory, predictionHorizon, runs, settled, now, version, isTraining,
                   trainBtnDisabled, predictBtnDisabled, loadBtnDisabled, metrics,
                   dataLoaded, loading>>
    /\ UNCHANGED <<configVars, pureVars, series, insights, shownInsights, viewBtnDisabled,
                   sinceReload, loadVars>>

(* predictions.array() resolves with the output row, or rejects.           *)
PredictArrayDone(p, fault, row) ==
    /\ p \in 1..Len(preds)
    /\ preds[p].pc = "array"
    /\ \E refuses \in BOOLEAN :
       LET result == PredictReturn(fault, row, predictionHorizon)
       IN  /\ preds' = Remove(preds, p)
           /\ returned' = [preds[p] EXCEPT !.pc = "returned", !.fault = fault,
                                           !.result = result,
                                           !.shown = IF preds[p].caller = "app"
                                                     THEN PredictionsShown(charts, dataLoaded,
                                                                           refuses)
                                                     ELSE NoStatus]
           /\ IF preds[p].caller = "app"
              THEN MakePredictionsResume(result, refuses)
              ELSE UNCHANGED <<predictions, trainingStatus, charts>>
    /\ UNCHANGED <<gruVars, runs, settled, now, version, isTraining, trainBtnDisabled,
                   predictBtnDisabled, loadBtnDisabled, metrics, dataLoaded, loading,
                   calls>>
    /\ UNCHANGED <<configVars, pureVars, series, insights, shownInsights, viewBtnDisabled,
                   sinceReload, loadVars>>

(* ------------------------------ loading ------------------------------- *)
(* What #dataStatus shows.                                                  *)
LoadingData == Status("info", "Loading S&P 500 data from GitHub", "")
LegacyLoadingData == Status("", "Loading data", "")
TakingLonger == Status("warning", "Taking longer than expected", "")
Reloading == Status("info", "Reloading", "")
DataLoaded == Status("success", "Data loaded! Ready for fast training", "")
DataReloaded == Status("success", "Data reloaded!", "")
LoadFailed(message) == Status("error", message, "")

(* this.loadingTimeout: id is 0 for null, pending tells whether the timer   *)
(* it names can still fire.                                                 *)
NoTimeout == [id |-> 0, pending |-> FALSE]

(* A slip that forgets the field's timer and only clears the field.        *)
ClearLoadingTimeoutFieldOnly(lt) == [lt EXCEPT !.id = 0]

(* Lines 82-85, 106-109 and 806-809: if (this.loadingTimeout) {            *)
(* clearTimeout(this.loadingTimeout); this.loadingTimeout = null; }        *)
ClearLoadingTimeout(lt) == IF lt.id # 0 THEN NoTimeout ELSE lt

(* autoLoadData up to its await, lines 57-77, called by the constructor:   *)
(* the 5-second timer is set and the loading message shown.                *)
AutoLoadStarted ==
    /\ loadingTimeout = [id |-> 1, pending |-> TRUE]
    /\ dataStatus = LoadingData
(* The legacy page has no timer; a GRUModel used directly has no page.     *)
LegacyAutoLoadStarted ==
    /\ loadingTimeout = NoTimeout
    /\ dataStatus = LegacyLoadingData
NoAutoLoad ==
    /\ loadingTimeout = NoTimeout
    /\ dataStatus = NoStatus

(* The timer of autoLoadData fires, lines 62-65.                           *)
TimerFires ==
    /\ loadingTimeout.pending
    /\ loadingTimeout' = [loadingTimeout EXCEPT !.pending = FALSE]
    /\ dataStatus' = TakingLonger
    /\ UNCHANGED <<gruVars, runs, settled, preds, returned, now, appVars, calls,
                   configVars, pureVars, dataVars, sinceReload>>

(* A reload begins: the predict() calls in flight were made before it.      *)
MarkReloaded(calls_) == [p \in 1..Len(calls_) |-> [calls_[p] EXCEPT !.reloaded = TRUE]]

(* A series is told from the ones before it by its id; the id of a newly    *)
(* loaded series is one that nothing on the page refers to any more.        *)
NewSeriesId == CHOOSE id \in 1..3 : id \notin {series, insights, shownInsights}

(* DataLoader.getInsights(): the insights of the series it holds.           *)
getInsights(id) == id

(* displayInsights(), lines 186-222: a click on #viewDataBtn, also called    *)
(* when a load succeeds; nothing happens without insights.                  *)
displayInsights ==
    /\ version \in {"app", "legacy"}
    /\ ~viewBtnDisabled
    /\ shownInsights' = IF insights = 0 THEN shownInsights ELSE insights
    /\ \E refuses \in BOOLEAN : charts' = createVolatilityChart(charts, insights, refuses)
    /\ UNCHANGED <<gruVars, runs, settled, preds, returned, now, appVars, calls,
                   configVars, pureVars, series, insights, viewBtnDisabled, sinceReload, loadVars>>

(* loadData(), lines 120-157: the click handler up to the await.           *)
loadData ==
    /\ version = "app"
    /\ ~loadBtnDisabled
    /\ calls < MaxCalls
    /\ calls' = calls + 1
    /\ loadBtnDisabled' = TRUE
    /\ trainBtnDisabled' = TRUE
    /\ predictBtnDisabled' = TRUE
    /\ dataLoaded' = FALSE
    /\ series' = 0
    /\ viewBtnDisabled' = TRUE
    /\ shownInsights' = 0
    /\ UNCHANGED insights
    /\ charts' = DestroyCharts(charts)
    /\ SetG(dispose(G))
    /\ sinceReload' = [mark |-> nextInst, inst |-> 0]
    /\ predictions' = <<>>
    /\ preds' = MarkReloaded(preds)
    /\ loading' = Append(loading, "manual")
    /\ UNCHANGED <<trainingHistory, predictionHorizon, runs, settled, returned, now, version,
                   isTraining, trainingStatus, metrics>>
    /\ dataStatus' = Reloading
    /\ UNCHANGED <<configVars, pureVars, loadingTimeout>>

(* The legacy loadData (part_001, lines 66-86): no button is disabled and   *)
(* predictions are kept.                                                    *)
LegacyLoadData ==
    /\ version = "legacy"
    /\ ~loadBtnDisabled
    /\ calls < MaxCalls
    /\ calls' = calls + 1
    /\ dataLoaded' = FALSE
    /\ series' = 0
    /\ UNCHANGED <<insights, shownInsights, viewBtnDisabled>>
    /\ charts' = DestroyCharts(charts)
    /\ SetG(dispose(G))
    /\ sinceReload' = [mark |-> nextInst, inst |-> 0]
    /\ preds' = MarkReloaded(preds)
    /\ loading' = Append(loading, "manual")
    /\ UNCHANGED <<trainingHistory, predictionHorizon, runs, settled, returned, now, version,
                   isTraining, predictions, trainingStatus, trainBtnDisabled,
                   predictBtnDisabled, loadBtnDisabled, metrics>>
    /\ dataStatus' = Reloading
    /\ UNCHANGED <<configVars, pureVars, loadingTimeout>>

(* loadCSVFromGitHub + prepareData finish (ok) or raise: the rest of        *)
(* autoLoadData / loadData, success path or catch.  autoLoadData of app.js  *)
(* clears its timer on both paths; a chart constructor that throws in the   *)
(* success path takes the handler to its catch.                             *)
LoadDone(i, ok) ==
    /\ i \in 1..Len(loading)
    /\ loading' = Remove(loading, i)
    /\ dataLoaded' = IF ok THEN TRUE ELSE dataLoaded
    /\ IF ok
       THEN /\ series' = NewSeriesId
            /\ insights' = getInsights(NewSeriesId)
            /\ shownInsights' = getInsights(NewSeriesId)
            /\ viewBtnDisabled' = FALSE
            /\ \E refuses \in BOOLEAN :
                  /\ charts' = createVolatilityChart(charts, getInsights(NewSeriesId),
                                                     refuses)
                  /\ dataStatus' =
                        IF VolatilityChartThrows(charts, getInsights(NewSeriesId), refuses)
                        THEN LoadFailed(CanvasInUse.text)
                        ELSE IF loading[i] = "auto" THEN DataLoaded ELSE DataReloaded
       ELSE /\ UNCHANGED dataVars
            /\ dataStatus' = LoadFailed("load failed")
    /\ loadingTimeout' = IF version = "app" /\ loading[i] = "auto"
                         THEN ClearLoadingTimeout(loadingTimeout) ELSE loadingTimeout
    /\ trainBtnDisabled' =
          IF ok /\ (version = "app" \/ loading[i] = "auto") THEN FALSE ELSE trainBtnDisabled
    /\ loadBtnDisabled' = IF version = "app" THEN FALSE ELSE loadBtnDisabled
    /\ UNCHANGED <<gruVars, runs, settled, preds, returned, now, version, isTraining, predictions,
                   trainingStatus, predictBtnDisabled, metrics, calls>>
    /\ UNCHANGED <<configVars, pureVars, sinceReload>>

(* dispose() of the page, lines 803-823, called on beforeunload: the timer, *)
(* the data, the model and the charts the table holds are released.         *)
AppDispose ==
    /\ version = "app"
    /\ calls < MaxCalls
    /\ calls' = calls + 1
    /\ loadingTimeout' = ClearLoadingTimeout(loadingTimeout)
    /\ dataLoaded' = FALSE
    /\ series' = 0
    /\ SetG(dispose(G))
    /\ sinceReload' = [mark |-> nextInst, inst |-> 0]
    /\ charts' = DestroyCharts(charts)
    /\ UNCHANGED <<trainingHistory, predictionHorizon, runs, settled, preds, returned, now,
                   version, isTraining, predictions, trainingStatus, trainBtnDisabled,
                   predictBtnDisabled, loadBtnDisabled, metrics, loading, insights,
                   shownInsights, viewBtnDisabled, dataStatus>>
    /\ UNCHANGED <<configVars, pureVars>>

(* --------------------- direct use of a GRUModel ----------------------- *)
EpochArgs == { Num(0), Frac(5, 2) }
SampleCounts == { 100, 300 }
(* Arguments of train(): few samples for one epoch, many for two.          *)
TrainArgs == { [epochs |-> Num(0), samples |-> 100],
               [epochs |-> Frac(5, 2), samples |-> 300] }

GBuildModel ==
    /\ calls < MaxDirectCalls
    /\ calls' = calls + 1
    /\ SetG(buildModel(G))
    /\ UNCHANGED <<trainingHistory, predictionHorizon, runs, settled, preds, returned, now, appVars>>
    /\ UNCHANGED <<configVars, pureVars, dataVars, sinceReload, loadVars>>

GDispose ==
    /\ SetG(dispose(G))
    /\ UNCHANGED <<trainingHistory, predictionHorizon, runs, settled, preds, returned, now, appVars, calls>>
    /\ UNCHANGED <<configVars, pureVars, dataVars, sinceReload, loadVars>>

(* train(X_train, y_train, epochs, callbacks) up to the await of fit.  The *)
(* caller awaits one train() call before it makes the next.                *)
GTrain(hasX, hasY, sampleCount, epochs, cbs) ==
    /\ runs = <<>>
    /\ calls < MaxDirectCalls
    /\ calls' = calls + 1
    /\ LET g1  == TrainEnsureModel(G)
           run == NewRun(cbs, epochs, G, g1, hasX /\ hasY)
       IN  /\ SetG(g1)
           /\ StartRun(IF hasX /\ hasY
                       THEN [run EXCEPT !.samples = sampleCount,
                                        !.batchSize = TrainBatchSize(batchSize,
                                                                     sampleCount)]
                       ELSE run)
    /\ UNCHANGED <<trainingHistory, predictionHorizon, preds, returned, now, appVars>>
    /\ UNCHANGED <<configVars, pureVars, dataVars, sinceReload, loadVars>>

(* predict(X) up to the await of predictions.array().                      *)
GPredict(hasX, syncFault) ==
    /\ calls < MaxDirectCalls
    /\ calls' = calls + 1
    /\ SetG(PredictEnsureModel(G))
    /\ StartPred(
          IF ~hasX THEN NewPred("direct", "threw", FALSE, <<>>, NoStatus)
          ELSE IF syncFault
               THEN NewPred("direct", "returned", TRUE,
                            PredictReturn(TRUE, <<>>, predictionHorizon), NoStatus)
               ELSE NewPred("direct", "array", FALSE, <<>>, NoStatus),
          PredictEnsureModel(G))
    /\ UNCHANGED <<trainingHistory, predictionHorizon, runs, settled, now, appVars>>
    /\ UNCHANGED <<configVars, pureVars, dataVars, sinceReload, loadVars>>

GEvaluate(hasTest, ok) ==
    /\ metrics' = evaluate(G, hasTest, ok)
    /\ lastCall' = EvaluateCall(G, hasTest, ok)
    /\ UNCHANGED <<model, isTrained, trainingHistory, predictionHorizon, live, nextInst,
                   released, fitted, runs, settled, preds, returned, now, version,
                   isTraining, predictions,
                   trainingStatus, trainBtnDisabled, predictBtnDisabled,
                   loadBtnDisabled, dataLoaded, loading, calls>>
    /\ UNCHANGED <<configVars, pureVars, dataVars, sinceReload, loadVars>>

(* ------------------- the input of a live prediction ------------------- *)
(* An array or null.                                                       *)
NoData == [t |-> "null", v |-> <<>>]
Array(v) == [t |-> "array", v |-> v]

(* Array.prototype.slice(start) with one argument: a negative start counts *)
(* from the end, and both are clipped to the array.                        *)
Slice(v, start) ==
    LET k == IF start < 0 THEN Max(Len(v) + start, 0) ELSE Min(start, Len(v))
    IN  SubSeq(v, k + 1, Len(v))

(* A slip that takes the window from the front of the series.              *)
FirstWindow(v, w) == SubSeq(v, 1, Min(w, Len(v)))

(* makePredictions, line 607: normalizedData.slice(-windowSize).           *)
LastWindow(v, w) == Slice(v, 0 - w)

(* makePredictions, line 602: the check that raises.                       *)
WindowMissing(data, w) == data.t = "null" \/ Len(data.v) < w

NoInput == [pc |-> "none", message |-> "", window |-> <<>>, predictCalled |-> FALSE]

(* makePredictions, lines 599-613: the error raised, or the window put     *)
(* into the input tensor that model.predict is called with.                *)
MakePredictionsInput(data, w) ==
    IF WindowMissing(data, w)
    THEN [pc |-> "threw", message |-> "Not enough normalized data for predictions",
          window |-> <<>>, predictCalled |-> FALSE]
    ELSE [pc |-> "predict", message |-> "", window |-> LastWindow(data.v, w),
          predictCalled |-> TRUE]

(* ------------------------- the combined chart ------------------------- *)
(* Trailing windows of the two moving averages the Analytics computes.     *)
SmaShort == 50
SmaLong == 200

Ceil(a, b) == (a + b - 1) \div b

(* v.filter((_, i) => i % step === 0): the elements at the zero-based       *)
(* positions 0, step, 2 step, ...                                           *)
EveryNth(v, step) == [k \in 1..Ceil(Len(v), step) |-> v[(k - 1) * step + 1]]

(* createCombinedChart, lines 238-249: at most about maxPoints points.      *)
Downsample(v) ==
    IF Len(v) > MaxPoints THEN EveryNth(v, Ceil(Len(v), MaxPoints)) ELSE v

(* The simple moving average over N prices: one value for each day that has *)
(* N prices up to it, named by the position of that day; none for a shorter *)
(* series.                                                                  *)
Sma(v, N) == [k \in 1..Max(0, Len(v) - N + 1) |-> v[k + N - 1]]

NoChart ==
    [pc |-> "none", prices |-> <<>>, pad50 |-> 0, pad200 |-> 0,
     sma50Data |-> <<>>, sma200Data |-> <<>>]

(* [...Array(k).fill(null), ...sma]: null is written 0; Array(k) raises a   *)
(* RangeError for a negative k.                                             *)
PadLeft(k, sma) == [i \in 1..k |-> 0] \o sma

(* The datasets of a chart of the plotted prices and the two averages,      *)
(* lines 251-256.                                                           *)
ChartOf(plotted, sma50, sma200) ==
    LET pad50  == Len(plotted) - Len(sma50)
        pad200 == Len(plotted) - Len(sma200)
    IN  IF pad50 < 0 \/ pad200 < 0
        THEN [pc |-> "threw", prices |-> plotted, pad50 |-> pad50, pad200 |-> pad200,
              sma50Data |-> <<>>, sma200Data |-> <<>>]
        ELSE [pc |-> "drawn", prices |-> plotted, pad50 |-> pad50, pad200 |-> pad200,
              sma50Data |-> PadLeft(pad50, sma50), sma200Data |-> PadLeft(pad200, sma200)]

(* createCombinedChart of app.js, lines 224-256, and of part_001, which     *)
(* plots every price.                                                       *)
CombinedChart(v, prices) ==
    IF v = "legacy"
    THEN ChartOf(prices, Sma(prices, SmaShort), Sma(prices, SmaLong))
    ELSE ChartOf(Downsample(prices), Sma(prices, SmaShort), Sma(prices, SmaLong))

(* --------------------------- specifications --------------------------- *)
InitCommon ==
    /\ model = 0
    /\ isTrained = FALSE
    /\ trainingHistory = 0
    /\ live = {}
    /\ nextInst = 1
    /\ released = <<>>
    /\ fitted = {}
    /\ lastCall = NoCall
    /\ runs = <<>>
    /\ settled = NoRun
    /\ preds = <<>>
    /\ returned = NoPred
    /\ now = ClockStart
    /\ isTraining = FALSE
    /\ predictions = <<>>
    /\ trainingStatus = Status("", "Ready for fast training", "")
    /\ trainBtnDisabled = TRUE
    /\ predictBtnDisabled = TRUE
    /\ metrics = "none"
    /\ dataLoaded = FALSE
    /\ calls = 0
    /\ inputTensor = NoInput
    /\ chart = NoChart
    /\ series = 0
    /\ insights = 0
    /\ shownInsights = 0
    /\ viewBtnDisabled = TRUE
    /\ charts = NoCharts
    /\ sinceReload = [mark |-> 0, inst |-> 0]

(* The two computations checked on their own have no input.                *)
NoInputs ==
    /\ normalizedData = NoData
    /\ historicalData = NoData

(* The page after `new StockPredictorApp()` of app.js: autoLoadData is in   *)
(* flight and has disabled #loadDataBtn.                                    *)
Init ==
    /\ Constructed(constructor(Undefined, Undefined))
    /\ InitCommon
    /\ AutoLoadStarted
    /\ NoInputs
    /\ version = "app"
    /\ loadBtnDisabled = TRUE
    /\ loading = <<"auto">>

Next ==
    \/ \E text \in EpochTexts : fastTrainModel(text)
    \/ \E r \in 1..MaxCalls, d \in EpochMillis : FitEpochEnd(r, d)
    \/ \E r \in 1..MaxCalls : FitResume(r)
    \/ \E r \in 1..MaxCalls, ok \in BOOLEAN : FitTrainEnd(r, ok)
    \/ \E r \in 1..MaxCalls : FitResolve(r)
    \/ \E r \in 1..MaxCalls, e \in BackendErrors : FitFail(r, e)
    \/ \E f \in BOOLEAN : makePredictions(f)
    \/ \E p \in 1..MaxCalls, f \in BOOLEAN, row \in GenuineRows(predictionHorizon) :
          PredictArrayDone(p, f, row)
    \/ loadData
    \/ \E i \in 1..(MaxCalls + 1), ok \in BOOLEAN : LoadDone(i, ok)
    \/ displayInsights
    \/ TimerFires

Spec == Init /\ [][Next]_vars

(* The backend and the scheduler go on: an epoch in progress finishes or    *)
(* fails, a frame requested with tf.nextFrame() comes, a finished fit       *)
(* calls onTrainEnd and resolves.  Clicks and the network are not forced.   *)
BackendStep ==
    \/ \E r \in 1..MaxCalls, d \in EpochMillis : FitEpochEnd(r, d)
    \/ \E r \in 1..MaxCalls : FitResume(r)
    \/ \E r \in 1..MaxCalls, ok \in BOOLEAN : FitTrainEnd(r, ok)
    \/ \E r \in 1..MaxCalls : FitResolve(r)
    \/ \E r \in 1..MaxCalls, e \in BackendErrors : FitFail(r, e)

(* The page of app.js as far as training goes: the Train and Reload Data    *)
(* buttons, the network and the backend.                                    *)
NextTraining ==
    \/ \E text \in EpochTexts : fastTrainModel(text)
    \/ BackendStep
    \/ loadData
    \/ \E i \in 1..(MaxCalls + 1), ok \in BOOLEAN : LoadDone(i, ok)

SpecLive == Init /\ [][NextTraining]_vars /\ WF_vars(BackendStep)

(* The same page with its slow-load timer and with dispose().               *)
NextAutoLoad ==
    \/ NextTraining
    \/ TimerFires
    \/ AppDispose

SpecAutoLoad == Init /\ [][NextAutoLoad]_vars

(* The page of app.js with a backend that does not fail and epochs that    *)
(* all take the same time, for any number of epochs asked for.             *)
NextEpochs ==
    \/ \E q \in EpochRequests : fastTrainModel(q.text)
    \/ \E r \in 1..MaxCalls : FitEpochEnd(r, 2 * ThrottleMs)
    \/ \E r \in 1..MaxCalls : FitResume(r)
    \/ \E r \in 1..MaxCalls : FitTrainEnd(r, TRUE)
    \/ \E r \in 1..MaxCalls : FitResolve(r)
    \/ \E ok \in BOOLEAN : LoadDone(1, ok)

SpecEpochs == Init /\ [][NextEpochs]_vars

(* The window of a live prediction, for any series the DataLoader may hold: *)
(* none, or n normalised returns, each told apart by its position.          *)
SeriesInputs == {NoData} \cup { Array([i \in 1..n |-> i]) : n \in 0..MaxSeriesLen }

InitWindow ==
    /\ Constructed(constructor(Undefined, Undefined))
    /\ InitCommon
    /\ NoAutoLoad
    /\ normalizedData \in SeriesInputs
    /\ historicalData = NoData
    /\ version = "app"
    /\ loadBtnDisabled = FALSE
    /\ loading = <<>>

(* makePredictions up to the call of model.predict, lines 597-613.          *)
PrepareInput ==
    /\ inputTensor.pc = "none"
    /\ inputTensor' = MakePredictionsInput(normalizedData, windowSize)
    /\ trainingStatus' = IF WindowMissing(normalizedData, windowSize)
                         THEN NotEnoughData
                         ELSE Status("info", "Generating predictions", "")
    /\ UNCHANGED <<gruVars, runs, settled, preds, returned, now, version, isTraining,
                   predictions, trainBtnDisabled, predictBtnDisabled, loadBtnDisabled,
                   metrics, dataLoaded, loading, calls, configVars, normalizedData,
                   historicalData, chart, dataVars, sinceReload, loadVars>>

NextWindow == PrepareInput

SpecWindow == InitWindow /\ [][NextWindow]_vars

(* The combined chart, for any prices the DataLoader may hold: none, or n   *)
(* prices, each told apart by its position.                                 *)
PriceInputs == {NoData} \cup { Array([i \in 1..n |-> i]) : n \in 0..MaxPrices }

InitChart ==
    /\ Constructed(constructor(Undefined, Undefined))
    /\ InitCommon
    /\ NoAutoLoad
    /\ normalizedData = NoData
    /\ historicalData \in PriceInputs
    /\ version \in {"app", "legacy"}
    /\ loadBtnDisabled = FALSE
    /\ loading = <<>>

(* createCombinedChart(): nothing is drawn without historical data.         *)
createCombinedChart ==
    /\ chart.pc = "none"
    /\ historicalData.t = "array"
    /\ chart' = CombinedChart(version, historicalData.v)
    /\ UNCHANGED <<gruVars, runs, settled, preds, returned, now, appVars, calls,
                   configVars, normalizedData, inputTensor, historicalData, dataVars,
                   sinceReload, loadVars>>

NextChart == createCombinedChart

SpecChart == InitChart /\ [][NextChart]_vars

(* Training requests that name no number of epochs, on the page of app.js  *)
(* and on a GRUModel constructed without arguments and used directly.       *)
MissingArgs == { Undefined, NaN, AnObject }

InitDefaults ==
    \/ Init
    \/ /\ Constructed(constructor(Undefined, Undefined))
       /\ InitCommon
       /\ NoAutoLoad
       /\ NoInputs
       /\ version = "direct"
       /\ loadBtnDisabled = TRUE
       /\ loading = <<>>

NextDefaults ==
    \/ \E q \in MissingRequests : fastTrainModel(q.text)
    \/ \E e \in MissingArgs, n \in SampleCounts :
          version = "direct" /\ GTrain(TRUE, TRUE, n, e, "probe")
    \/ \E r \in 1..MaxCalls : FitEpochEnd(r, 2 * ThrottleMs)
    \/ \E r \in 1..MaxCalls : FitResume(r)
    \/ \E r \in 1..MaxCalls : FitTrainEnd(r, TRUE)
    \/ \E r \in 1..MaxCalls : FitResolve(r)
    \/ \E ok \in BOOLEAN : LoadDone(1, ok)

SpecDefaults == InitDefaults /\ [][NextDefaults]_vars

(* The page running the legacy StockPredictorApp of part_001.              *)
InitLegacy ==
    /\ Constructed(constructor(Undefined, Undefined))
    /\ InitCommon
    /\ LegacyAutoLoadStarted
    /\ NoInputs
    /\ version = "legacy"
    /\ loadBtnDisabled = FALSE
    /\ loading = <<"auto">>

NextLegacy ==
    \/ \E text \in EpochTexts : LegacyFastTrainModel(text)
    \/ \E r \in 1..MaxCalls, d \in EpochMillis : FitEpochEnd(r, d)
    \/ \E r \in 1..MaxCalls : FitResume(r)
    \/ \E r \in 1..MaxCalls, ok \in BOOLEAN : FitTrainEnd(r, ok)
    \/ \E r \in 1..MaxCalls : FitResolve(r)
    \/ \E r \in 1..MaxCalls, e \in BackendErrors : FitFail(r, e)
    \/ \E f \in BOOLEAN : makePredictions(f)
    \/ \E p \in 1..MaxCalls, f \in BOOLEAN, row \in GenuineRows(predictionHorizon) :
          PredictArrayDone(p, f, row)
    \/ LegacyLoadData
    \/ \E i \in 1..(MaxCalls + 1), ok \in BOOLEAN : LoadDone(i, ok)
    \/ displayInsights

SpecLegacy == InitLegacy /\ [][NextLegacy]_vars

(* A GRUModel used directly, with any constructor arguments.               *)
HorizonArgs == {Undefined, Num(2)}

InitGRU ==
    /\ \E h \in HorizonArgs : Constructed(constructor(Undefined, h))
    /\ InitCommon
    /\ NoAutoLoad
    /\ NoInputs
    /\ version = "direct"
    /\ loadBtnDisabled = TRUE
    /\ loading = <<>>

NextGRU ==
    \/ GBuildModel
    \/ GDispose
    \/ \E hasX \in BOOLEAN, hasY \in BOOLEAN, a \in TrainArgs :
          GTrain(hasX, hasY, a.samples, a.epochs, "probe")
    \/ \E r \in 1..MaxDirectCalls : FitEpochEnd(r, ThrottleMs)
    \/ \E r \in 1..MaxDirectCalls : FitResume(r)
    \/ \E r \in 1..MaxDirectCalls : FitTrainEnd(r, TRUE)
    \/ \E r \in 1..MaxDirectCalls : FitResolve(r)
    \/ \E r \in 1..MaxDirectCalls, e \in BackendErrors : FitFail(r, e)
    \/ \E hasX \in BOOLEAN, f \in BOOLEAN : GPredict(hasX, f)
    \/ \E p \in 1..MaxDirectCalls, f \in BOOLEAN, row \in GenuineRows(predictionHorizon) :
          PredictArrayDone(p, f, row)
    \/ \E hasTest \in BOOLEAN, ok \in BOOLEAN : GEvaluate(hasTest, ok)

SpecGRU == InitGRU /\ [][NextGRU]_vars

(* A GRUModel used directly with every kind of third and fourth argument   *)
(* of train(): epochs is the third argument, cbs the callbacks object of   *)
(* the call ("null": a null fourth argument).                              *)
CallbackArgs ==
    { [epochs |-> Frac(5, 2), cbs |-> "throwing"],
      [epochs |-> AnObject,   cbs |-> "throwing"],
      [epochs |-> NaN,        cbs |-> "probe"],
      [epochs |-> Undefined,  cbs |-> "none"],
      [epochs |-> Null,       cbs |-> "none"],
      [epochs |-> Num(2),     cbs |-> "null"] }

NextCallbacks ==
    \/ \E a \in CallbackArgs, n \in SampleCounts : GTrain(TRUE, TRUE, n, a.epochs, a.cbs)
    \/ \E r \in 1..MaxDirectCalls : FitEpochEnd(r, ThrottleMs)
    \/ \E r \in 1..MaxDirectCalls : FitResume(r)
    \/ \E r \in 1..MaxDirectCalls : FitTrainEnd(r, TRUE)
    \/ \E r \in 1..MaxDirectCalls : FitResolve(r)
    \/ \E r \in 1..MaxDirectCalls, e \in BackendErrors : FitFail(r, e)

SpecCallbacks == InitGRU /\ [][NextCallbacks]_vars

(* ------------------------------ claims -------------------------------- *)
RunIds == 1..Len(runs)
AppRun(run) == run.cbs \in {"app", "legacy"}
DeliveredEpochs(run) == { run.delivered[i].epoch : i \in 1..Len(run.delivered) }
ZeroRow(h) == [i \in 1..h |-> 0]
(* Every train() call on record: those in flight and the last one settled. *)
Calls == { runs[r] : r \in RunIds } \cup (IF settled.pc = "none" THEN {} ELSE {settled})

(* C1: a training request made while an earlier train() call has not yet    *)
(* returned starts no second fit, so at no time are two training runs in    *)
(* flight.                                                                  *)
C1_OneRunInFlight == Cardinality(RunIds) <= 1

(* C2: when the backend raises during train, a model that was not trained   *)
(* before the call is still not trained when train has thrown.              *)
C2_FailedTrainKeepsState ==
    (settled.pc = "rejected" /\ ~settled.preTrained) => ~settled.postTrained

(* C3: when a training run of the app has ended, the progress update of its *)
(* last epoch has been delivered to the page.                               *)
C3_FinalEpochDelivered ==
    \A run \in Calls :
        (run.cbs = "app" /\ run.pc = "ended")
            => (run.epochs - 1) \in DeliveredEpochs(run)

(* C4: within one training run, any two consecutive delivered progress      *)
(* updates are more than 500 ms apart.                                      *)
C4_UpdatesThrottled ==
    \A run \in Calls :
        run.cbs = "app" =>
            \A i \in 1..(Len(run.delivered) - 1) :
                run.delivered[i + 1].at - run.delivered[i].at > ThrottleMs

C4_Witness ==
    \E run \in Calls : run.cbs = "app" /\ Len(run.delivered) >= 2

(* C5: within one training run the caller's onEpochEnd is invoked in        *)
(* strictly increasing epoch order, at most once per epoch, and only with   *)
(* epoch indices 0..epochs-1.                                               *)
C5_CallbacksInEpochOrder ==
    \A run \in Calls :
        /\ \A i \in 1..Len(run.cbLog) : run.cbLog[i] \in 0..(run.epochs - 1)
        /\ \A i, j \in 1..Len(run.cbLog) : i < j => run.cbLog[i] < run.cbLog[j]

C5_Witness ==
    \E run \in Calls : Len(run.cbLog) >= 2 /\ run.pc = "ended"

(* C6: train called when no model exists does not train and does not        *)
(* create a model.                                                          *)
C6_TrainNeedsModel ==
    \A run \in Calls :
        run.preModel = 0 => (run.inst = 0 /\ run.pc = "threw")

(* C7: train called with absent inputs or labels fails with the missing-    *)
(* data error and leaves model and isTrained as they were before the call.  *)
C7_MissingDataKeepsState ==
    settled.pc = "threw" =>
        /\ settled.error = MissingData
        /\ settled.postModel = settled.preModel
        /\ settled.postTrained = settled.preTrained

(* C8: a backend failure during training reaches the caller of train        *)
(* unchanged, and fastTrainModel shows it as an error carrying the error's  *)
(* message, never as a completed training.                                  *)
C8_FailureSurfaced ==
    (AppRun(settled) /\ settled.pc = "rejected") =>
        /\ settled.error = settled.raised
        /\ settled.shown = Status("error", "Training error", settled.raised.message)

(* C9: when the backend predict or array call fails, predict returns one    *)
(* row of exactly predictionHorizon zeros instead of throwing.              *)
C9_FallbackOnFault ==
    /\ \A p \in 1..Len(preds) : ~preds[p].fault
    /\ returned.fault =>
          /\ returned.pc = "returned"
          /\ returned.result = << ZeroRow(predictionHorizon) >>

C9_Witness ==
    returned.fault /\ returned.pc = "returned" /\ predictionHorizon = 2

(* C10: the result of predict after a backend fault differs from a genuine  *)
(* all-zero prediction, and makePredictions does not end with the status of *)
(* a normal prediction.                                                     *)
C10_DegradedFlagged ==
    (returned.fault /\ returned.pc = "returned") =>
        /\ returned.result # PredictReturn(FALSE, ZeroRow(predictionHorizon),
                                           predictionHorizon)
        /\ returned.shown # PredictionsGenerated

(* Every predict() call on record: those awaiting array() and the last one  *)
(* finished.                                                                *)
PredCalls == { preds[p] : p \in 1..Len(preds) }
                 \cup (IF returned.pc = "none" THEN {} ELSE {returned})

(* C11: predict called when no model exists creates no model and returns    *)
(* no prediction.                                                           *)
C11_PredictNeedsModel ==
    \A call \in PredCalls :
        call.preModel = 0
            => (call.postModel = 0 /\ call.pc \notin {"array", "returned"})

(* C12: evaluate on a model that is not trained returns exactly the fixed   *)
(* placeholder, does not call the backend and does not throw.               *)
C12_UntrainedPlaceholder ==
    (lastCall.op = "evaluate" /\ (lastCall.preModel = 0 \/ ~lastCall.preTrained))
        => /\ lastCall.result = [loss |-> 1, mse |-> 1, rmse |-> 32]
           /\ ~lastCall.backend
           /\ ~lastCall.threw

C12_Witness ==
    lastCall.op = "evaluate" /\ lastCall.preModel # 0 /\ ~lastCall.preTrained

(* C13: a backend failure during evaluate on a trained model is thrown to   *)
(* the caller and no substitute metrics are returned.                       *)
C13_EvaluateFailureReported ==
    (lastCall.op = "evaluate" /\ lastCall.failed)
        => (lastCall.threw /\ lastCall.result # [loss |-> 1, mse |-> 1, rmse |-> 32])

(* C14: every dispose() call ends with model = null and isTrained = false,  *)
(* does not throw, releases the held instance if there is one and nothing   *)
(* otherwise, and no backend instance is ever released twice.               *)
C14_DisposeIdempotent ==
    /\ lastCall.op = "dispose" =>
          /\ lastCall.postModel = 0
          /\ ~lastCall.postTrained
          /\ ~lastCall.threw
          /\ lastCall.releases = (IF lastCall.preModel = 0 THEN 0 ELSE 1)
    /\ \A i, j \in 1..Len(released) : i # j => released[i] # released[j]

C14_Witness ==
    lastCall.op = "dispose" /\ lastCall.preModel = 0 /\ released # <<>>

(* C15: at most one backend model instance is live, and a buildModel() on a *)
(* model that holds an instance has released that instance.                 *)
C15_OneLiveInstance ==
    /\ Cardinality(live) <= 1
    /\ (lastCall.op = "buildModel" /\ lastCall.preModel # 0) =>
          /\ lastCall.preModel \notin live
          /\ \E i \in 1..Len(released) : released[i] = lastCall.preModel

C15_Witness ==
    lastCall.op = "buildModel" /\ lastCall.preModel # 0 /\ Cardinality(live) = 1

(* C16: after every buildModel() the model is present and isTrained is      *)
(* false, so evaluate right after it returns the placeholder.               *)
C16_RebuildResets ==
    lastCall.op = "buildModel" =>
        /\ lastCall.postModel # 0
        /\ ~lastCall.postTrained
        /\ EvaluateCall([model |-> lastCall.postModel,
                         isTrained |-> lastCall.postTrained,
                         released |-> released], TRUE, TRUE).result
              = [loss |-> 1, mse |-> 1, rmse |-> 32]

C16_Witness ==
    lastCall.op = "buildModel" /\ lastCall.preModel # 0 /\ lastCall.preTrained

(* C17: for every number of epochs the caller asks for, the run executes    *)
(* max(1, floor(epochs)) epochs: never more, and exactly that many when it  *)
(* has ended.                                                               *)
C17_EpochsClamped ==
    \A run \in Calls :
        run.asked.t = "number" =>
            /\ run.epoch <= Max(1, run.asked.num \div run.asked.den)
            /\ run.pc \in {"ended", "resolved"}
                  => run.epoch = Max(1, run.asked.num \div run.asked.den)

(* C20: train yields to the scheduler after exactly the epochs 0, 3, 6, ... *)
(* and is suspended in a yield only right after such an epoch.              *)
C20_YieldEveryThird ==
    \A r \in RunIds :
        /\ Len(runs[r].yieldLog) = Cardinality({ e \in 0..(runs[r].epoch - 1) : e % 3 = 0 })
        /\ \A i \in 1..Len(runs[r].yieldLog) : runs[r].yieldLog[i] = 3 * (i - 1)
        /\ runs[r].pc = "yield" => (runs[r].epoch - 1) % 3 = 0

C20_Witness ==
    \E r \in RunIds : runs[r].epoch >= 6 /\ Len(runs[r].yieldLog) = 2

(* C18: the batch size given to the backend is min(batchSize, sampleCount): *)
(* never more than the samples and never more than 256.                     *)
C18_BatchSizeIsMin ==
    \A run \in Calls :
        run.pc # "threw" =>
            /\ run.batchSize = (IF run.samples < 256 THEN run.samples ELSE 256)
            /\ run.batchSize <= run.samples
            /\ run.batchSize <= 256

C18_Witness ==
    \E r \in RunIds : runs[r].samples < 256 /\ runs[r].pc = "fit"

(* C19: the caller's onTrainEnd runs exactly once for a run that completes, *)
(* after all its epoch callbacks, and not at all for one that fails; the    *)
(* evaluation the page makes in it (its only call of evaluate) finds the    *)
(* model trained and is a real backend evaluation.                          *)
C19_TrainEndOnceThenEvaluate ==
    /\ \A run \in Calls :
          HasOnTrainEnd(run.cbs) =>
              /\ run.trainEnds = (IF run.pc \in {"ended", "resolved"} THEN 1 ELSE 0)
              /\ run.pc = "ended" => Len(run.cbLog) = run.epochs
    /\ lastCall.op = "evaluate" => (lastCall.preTrained /\ lastCall.backend)

(* C21: whenever the re-entrancy guard is set it is eventually released:    *)
(* isTraining = true leads to isTraining = false on every path.             *)
C21_GuardReleased == isTraining ~> ~isTraining

(* A run whose model was disposed while it was in flight has failed and the *)
(* guard is released.                                                       *)
C21_Witness ==
    /\ ~isTraining
    /\ settled.cbs = "app" /\ settled.pc = "rejected"
    /\ settled.inst # 0 /\ settled.postModel = 0
    /\ settled.epoch < settled.epochs

(* C22: a live prediction is made on exactly the last windowSize values of  *)
(* the normalized series, and when the series is absent or shorter than     *)
(* windowSize it raises the not-enough-data error and the model is not      *)
(* called.                                                                  *)
C22_LastWindowOrError ==
    inputTensor.pc # "none" =>
        IF normalizedData.t = "null" \/ Len(normalizedData.v) < windowSize
        THEN /\ inputTensor.pc = "threw"
             /\ inputTensor.message = "Not enough normalized data for predictions"
             /\ ~inputTensor.predictCalled
        ELSE /\ inputTensor.pc = "predict"
             /\ inputTensor.predictCalled
             /\ Len(inputTensor.window) = windowSize
             /\ \A i \in 1..windowSize :
                   inputTensor.window[i]
                       = normalizedData.v[Len(normalizedData.v) - windowSize + i]

C22_Witness ==
    /\ inputTensor.pc = "predict"
    /\ Len(normalizedData.v) > windowSize
    /\ inputTensor.window[1] = Len(normalizedData.v) - windowSize + 1

(* C23: the insights the page holds, and those it shows, are always those   *)
(* of the series the DataLoader holds at that moment.                       *)
C23_InsightsOfCurrentSeries ==
    /\ insights # 0 => insights = series
    /\ shownInsights # 0 => shownInsights = series

(* C24: for every number of prices the chart is drawn with pad counts that  *)
(* are not negative and with both padded SMA arrays as long as the plotted  *)
(* price array.                                                             *)
C24_SmaAligned ==
    chart.pc # "none" =>
        /\ chart.pc = "drawn"
        /\ chart.pad50 >= 0
        /\ chart.pad200 >= 0
        /\ Len(chart.sma50Data) = Len(chart.prices)
        /\ Len(chart.sma200Data) = Len(chart.prices)

(* C25: a model constructed without arguments has windowSize 60,            *)
(* predictionHorizon 5 and batchSize 256, and a training request that names *)
(* no number of epochs runs 12 epochs.                                      *)
C25_Defaults ==
    /\ windowSize = 60
    /\ predictionHorizon = 5
    /\ batchSize = 256
    /\ \A run \in Calls :
          run.asked.t # "number" =>
              /\ run.epochs = 12
              /\ run.epoch <= 12
              /\ run.pc \in {"ended", "resolved"} => run.epoch = 12

C25_Witness ==
    /\ settled.pc = "resolved" /\ settled.asked.t = "undefined" /\ settled.epoch = 12
    /\ \E r \in RunIds : runs[r].asked.t = "nan" /\ runs[r].epoch = 12

(* C26: in every reachable state of a GRUModel a model that is trained      *)
(* exists: isTrained implies model # null.                                  *)
C26_TrainedHasModel == isTrained => model # 0

(* C27: while a train() call is in flight the model instance it trains has  *)
(* not been disposed.                                                       *)
C27_NoDisposeDuringTraining ==
    \A r \in RunIds :
        /\ runs[r].inst \in live
        /\ \A i \in 1..Len(released) : released[i] # runs[r].inst

(* C28: #predictBtn is enabled only while the model instance the page holds *)
(* has completed a training run since it was built.                         *)
C28_PredictOnlyWhenTrained ==
    ~predictBtnDisabled => (model # 0 /\ model \in fitted)

(* C29: predictions are stored only by a makePredictions call that no       *)
(* reload has overtaken: a call that was awaiting predict when a reload     *)
(* began stores nothing, so predictions cleared by the reload stay null     *)
(* until a later call completes.                                            *)
C29_StalePredictionsDropped ==
    [][(predictions' # predictions /\ predictions' # <<>>) => ~returned'.reloaded]_vars

(***************************************************************************)
(* C30: fastTrainModel builds a model only when none exists: a run entered *)
(* with a model trains that very instance and starts with isTrained as it  *)
(* was, so that consecutive runs with no reload between them use the same  *)
(* instance; a run entered without a model trains a newly built one, and   *)
(* the first run after a reload trains an instance built after the reload  *)
(* began (by this handler or by a prediction), on which no fit has run.   *)
(***************************************************************************)
C30_ReuseOrRebuild ==
    /\ \A run \in Calls : run.cbs = "app" =>
          /\ run.entry # 0 => run.inst = run.entry
          /\ run.entry = 0 => (run.inst # 0 /\ run.inst # run.prevInst)
          /\ run.prevInst # 0 => run.inst = run.prevInst
          /\ run.mark # 0 => run.inst >= run.mark
    /\ \A r \in RunIds : runs[r].cbs = "app" =>
          /\ runs[r].entry # 0 => runs[r].postTrained = runs[r].preTrained
          /\ (runs[r].mark # 0 /\ runs[r].epoch = 0) => runs[r].inst \notin fitted

(* C30 witness: the first run after a reload has ended on a new instance   *)
(* and a second run is training the same, already trained, instance.       *)
C30_Witness ==
    /\ settled.cbs = "app" /\ settled.pc = "resolved" /\ settled.mark # 0
    /\ \E r \in RunIds :
          /\ runs[r].cbs = "app" /\ runs[r].pc = "fit"
          /\ runs[r].prevInst = settled.inst /\ runs[r].inst = settled.inst
          /\ runs[r].preTrained

(* A percentage in (0, 100], and the order of two percentages.             *)
InPercentRange(p) == p.num > 0 /\ p.num <= 100 * p.den
PercentLeq(p, q) == p.num * q.den <= q.num * p.den
IsHundred(p) == p.num = 100 * p.den

(***************************************************************************)
(* C31: every progress report carries a percentage in (0, 100] that does   *)
(* not decrease over the run and is 100 for the final epoch, both in the   *)
(* value train() hands to the callback and in the percentage the page      *)
(* shows, whatever number of epochs was asked for.                         *)
(***************************************************************************)
C31_ProgressInRange ==
    \A r \in RunIds :
        LET run == runs[r]
        IN  /\ \A i \in 1..Len(run.progressLog) :
                  /\ InPercentRange(run.progressLog[i])
                  /\ i > 1 => PercentLeq(run.progressLog[i - 1], run.progressLog[i])
                  /\ run.cbLog[i] = run.epochs - 1 =>
                         IsHundred(run.progressLog[i])
            /\ \A i \in 1..Len(run.delivered) :
                  /\ InPercentRange(run.delivered[i].progress)
                  /\ i > 1 => PercentLeq(run.delivered[i - 1].progress,
                                         run.delivered[i].progress)
                  /\ run.delivered[i].epoch = run.epochs - 1 =>
                         IsHundred(run.delivered[i].progress)

(***************************************************************************)
(* C32: an exception thrown by the caller's onEpochEnd or onTrainEnd is    *)
(* contained: the run goes on after it, train() rejects only for a fault   *)
(* of the backend, and a run that resolves has called the callbacks for    *)
(* every epoch and the end, leaves isTrained set and the history stored.   *)
(***************************************************************************)
C32_CallbackErrorsContained ==
    /\ \A r \in RunIds : CallbackThrows(runs[r].cbs) =>
          runs[r].caught = Len(runs[r].cbLog) + runs[r].trainEnds
    /\ CallbackThrows(settled.cbs) =>
          /\ settled.pc = "rejected" => settled.raised \in BackendErrors
          /\ settled.pc = "resolved" =>
                /\ settled.caught = settled.epochs + 1
                /\ settled.epoch = settled.epochs
                /\ settled.postTrained /\ isTrained
                /\ trainingHistory = settled.epochs

(* C32 witness: a train() call whose callbacks threw at every epoch and at *)
(* the end has resolved.                                                   *)
C32_Witness ==
    /\ settled.cbs = "throwing" /\ settled.pc = "resolved"
    /\ settled.caught = settled.epochs + 1 /\ settled.epochs > 1

(***************************************************************************)
(* C35: train() takes an object passed as third argument as the callbacks  *)
(* with 12 epochs, takes 12 for an epochs that is not a number, and is     *)
(* left with callbacks on which onEpochEnd and onTrainEnd can be looked up *)
(* without raising, whatever the third argument, null included.            *)
(***************************************************************************)
C35_ArgumentsNormalised ==
    \A run \in Calls :
        /\ run.asked.t # "number" => run.epochs = DefaultEpochs
        /\ run.cbs # "null"
        /\ run.raised # LookupError

(***************************************************************************)
(* C33: at most one undestroyed chart is bound to the 'predictionChart'    *)
(* canvas, and no chart was overwritten in the charts table without        *)
(* having been destroyed.                                                  *)
(***************************************************************************)
C33_OneChartPerCanvas ==
    /\ LiveOnCanvas(charts) <= 1
    /\ charts.orphans = 0

AutoLoadFinished == \A i \in 1..Len(loading) : loading[i] # "auto"

(***************************************************************************)
(* C34: once autoLoadData has finished, on the success path or in its      *)
(* catch, the slow-load timer cannot fire any more, loadingTimeout is null *)
(* and #dataStatus does not show the slow-load warning.                    *)
(***************************************************************************)
C34_TimerCancelled ==
    AutoLoadFinished =>
        /\ loadingTimeout = NoTimeout
        /\ dataStatus # TakingLonger

(* C34 witness: autoLoadData has ended in its catch, before anything else  *)
(* was done on the page, with the timer cancelled.                         *)
C34_Witness ==
    /\ AutoLoadFinished /\ calls = 0
    /\ dataStatus = LoadFailed("load failed")
    /\ loadingTimeout = NoTimeout

====
